---- MODULE Spec2Model ----
(***************************************************************************)
(* Iron condor screener: examples/rest/options-iron-condor/screener.py.    *)
(*                                                                         *)
(* Money (strikes, bids, asks, credits, losses) is counted in half cents,  *)
(* so that the midpoint (bid + ask) / 2 of two cent quotes is an integer.  *)
(* risk_reward_ratio is counted in hundredths and probability_of_profit    *)
(* in tenths (the code rounds them to 2 and to 1 decimals); min_probability *)
(* is counted in tenths as well.                                           *)
(***************************************************************************)
EXTENDS Integers, Sequences, FiniteSets, TLC

VARIABLES
    calls,              \* options_chain['calls'] of the expiration
    puts,               \* options_chain['puts'] of the expiration
    half,               \* the side of a decimal half-way case the floats lie on
    pc,                 \* which call of the screener has returned
    iron_condors,       \* the list construct_iron_condors returned
    args,               \* the arguments of the find_best_iron_condors call
    all_iron_condors,   \* find_best_iron_condors: all_iron_condors
    filtered_condors,   \* find_best_iron_condors: filtered_condors before ranking
    ret,                \* the value find_best_iron_condors returned
    criteria,           \* display_results: criteria
    sorted_condors,     \* display_results: sorted_condors
    ambient,            \* what the provider and the clock gave the call
    raw,                \* the snapshots list_snapshot_options_chain yields
    pricing             \* a call of calculate_black_scholes_probability

vars == <<calls, puts, half, pc, iron_condors, args, all_iron_condors,
          filtered_condors, ret, criteria, sorted_condors, ambient, raw,
          pricing>>

----------------------------------------------------------------------------
(* Units *)

Cents(c) == 2 * c
Dollars(d) == 200 * d

(* Bounds of the model *)
MaxCalls == 3       \* calls of an enumerated chain
MaxPuts == 2        \* puts of an enumerated chain
MaxLimit == 2       \* largest --limit
DaysOut == 10       \* days from the earliest evaluation date to the expiration
MaxChain == 52      \* legs per side of a generated chain
MaxRaw == 3         \* snapshots the provider yields
MaxDays == 2        \* largest days_to_exp given to the probability function
MaxRanked == 20     \* calls times puts of a chain whose index tuples are ranked
MaxListed == 10     \* legs per side of a chain whose combinations are all listed

(* Program constants *)
min_volume == 5
min_open_interest == 25
max_options == 50
max_iron_condors == 1000
max_count == 3000

Min(a, b) == IF a <= b THEN a ELSE b

----------------------------------------------------------------------------
(* The option records get_options_chain builds (option_data). *)

Leg(k, b, a, v, oi) ==
    [strike |-> Dollars(k), bid |-> Cents(b), ask |-> Cents(a),
     volume |-> v, open_interest |-> oi]

CallLegs ==
    { Leg(100, 100, 110, 50, 100),
      Leg(105, 50, 60, 50, 100),
      Leg(100, 580, 581, 50, 100),
      Leg(101, 1, 1, 50, 100) }

PutLegs ==
    { Leg(90, 40, 50, 50, 100),
      Leg(85, 20, 30, 50, 100),
      Leg(100, 99, 100, 50, 100),
      Leg(95, 60, 70, 50, 24) }

\* the lists of at most n distinct records of S, in every order
Chains(S, n) ==
    { s \in UNION { [1..m -> S] : m \in 0..n } :
        \A i, j \in 1..Len(s) : i # j => s[i] # s[j] }

----------------------------------------------------------------------------
(* round(x, 2) of a positive amount x: x is a whole number of half cents,  *)
(* so it is either a whole number of cents or a decimal half-way case. The *)
(* float the code rounds is the result of binary arithmetic on the quotes  *)
(* and lies on either side of a half-way case: h is the side it lies on.   *)
round2(x, h) ==
    IF x % 2 = 0 THEN x
    ELSE IF h = "up" THEN x + 1 ELSE x - 1

(* round(x, 1) in tenths, of x >= 0 in hundredths *)
round_tenth(x, h) ==
    LET q == x \div 10
        r == x % 10
    IN  IF r < 5 THEN q
        ELSE IF r > 5 THEN q + 1
        ELSE IF h = "up" THEN q + 1 ELSE q

(* round(n / d, 2) in hundredths, for n >= 0 and d > 0 *)
round_ratio(n, d, h) ==
    LET q == (100 * n) \div d
        r == (100 * n) % d
    IN  IF 2 * r < d THEN q
        ELSE IF 2 * r > d THEN q + 1
        ELSE IF h = "up" THEN q + 1 ELSE q

----------------------------------------------------------------------------
(* construct_iron_condors *)

\* a build that asks for volume only
IsTraded(o) == o.volume >= min_volume

\* a build that asks for open interest only
IsOpen(o) == o.open_interest >= min_open_interest

\* c['volume'] >= min_volume and c['open_interest'] >= min_open_interest
IsLiquid(o) == o.volume >= min_volume /\ o.open_interest >= min_open_interest

\* sorted(xs, key=lambda x: x['strike']): ascending and stable, an option
\* goes behind every option whose strike is not larger than its own
RECURSIVE InsertByStrike(_, _)
InsertByStrike(sorted, o) ==
    IF sorted = <<>> THEN <<o>>
    ELSE IF sorted[Len(sorted)].strike <= o.strike THEN Append(sorted, o)
    ELSE Append(InsertByStrike(SubSeq(sorted, 1, Len(sorted) - 1), o),
                sorted[Len(sorted)])

RECURSIVE SortedByStrike(_)
SortedByStrike(xs) ==
    IF xs = <<>> THEN <<>>
    ELSE InsertByStrike(SortedByStrike(SubSeq(xs, 1, Len(xs) - 1)), xs[Len(xs)])

\* a build that keeps the liquid legs in the order of the chain
LiquidUnsorted(options) == SelectSeq(options, IsLiquid)

\* sorted([c for c in calls if ...], key=lambda x: x['strike'])
LiquidSorted(options) == SortedByStrike(SelectSeq(options, IsLiquid))

\* a build that keeps every liquid leg
AllOptions(options) == options

\* liquid_calls[:max_options]
FirstOptions(options) == SubSeq(options, 1, Min(max_options, Len(options)))

\* (bid + ask) / 2
Mid(o) == (o.bid + o.ask) \div 2

\* a build that multiplies by 100 once more
PercentRoundedTwice(prob_in_zone, h) == round_tenth(prob_in_zone * 100, h)

\* round(prob_in_zone * 100, 1) in tenths, of prob_in_zone in ten
\* thousandths (prob_in_zone * 100 in hundredths is the same number)
PercentRounded(prob_in_zone, h) == round_tenth(prob_in_zone, h)

\* a build that stops one condor later
ReachedLimitLate(out, limit) == Len(out) > limit

\* len(iron_condors) >= 1000, limit being the 1000
ReachedLimit(out, limit) == Len(out) >= limit

\* a build that lets the sold put sit at the strike of the sold call
PutAboveCall(put_sell, call_sell) == put_sell.strike > call_sell.strike

\* if put_sell['strike'] >= call_sell['strike']: continue
PutNotBelowCall(put_sell, call_sell) == put_sell.strike >= call_sell.strike

\* a build that stores the boundaries of the zone the other way round
ProfitZoneReversed(put_sell, call_sell) == <<call_sell.strike, put_sell.strike>>

\* profit_zone=(profit_zone_lower, profit_zone_upper)
ProfitZone(put_sell, call_sell) == <<put_sell.strike, call_sell.strike>>

\* The body of the innermost loop for one (call_sell, call_buy, put_sell,
\* put_buy); acc is the list built so far and whether the function returned.
Combination(acc, c, call_sell, call_buy, put_sell, put_buy) ==
    LET checked == [acc EXCEPT !.combinations_checked = @ + 1]
        call_credit == Mid(call_sell)
        call_debit == Mid(call_buy)
        put_credit == Mid(put_sell)
        put_debit == Mid(put_buy)
        net_credit == call_credit - call_debit + put_credit - put_debit
        call_spread_width == call_buy.strike - call_sell.strike
        put_spread_width == put_sell.strike - put_buy.strike
        total_width == call_spread_width + put_spread_width
        max_profit == net_credit
        max_loss == total_width - net_credit
        prob_in_zone == 5000
        iron_condor ==
            [expiration |-> c.expiration,
             call_spread |-> <<call_sell.strike, call_buy.strike>>,
             put_spread |-> <<put_sell.strike, put_buy.strike>>,
             net_credit |-> round2(net_credit, c.half.credit),
             max_profit |-> round2(max_profit, c.half.credit),
             max_loss |-> round2(max_loss, c.half.loss),
             profit_zone |-> ProfitZone(put_sell, call_sell),
             probability_of_profit |-> PercentRounded(prob_in_zone, c.half.ratio),
             risk_reward_ratio |-> round_ratio(max_profit, max_loss, c.half.ratio),
             days_to_expiration |-> c.days_to_exp,
             spot_price |-> c.spot_price]
        out == Append(acc.out, iron_condor)
    IN  IF PutNotBelowCall(put_sell, call_sell) THEN checked
        ELSE IF net_credit <= 0 THEN checked
        ELSE IF max_loss <= 0 THEN checked
        ELSE [checked EXCEPT !.out = out, !.returned = ReachedLimit(out, c.limit)]

\* for l, put_buy in enumerate(liquid_puts[:k])
RECURSIVE ForPutBuy(_, _, _, _, _, _)
ForPutBuy(acc, c, i, j, k, l) ==
    IF acc.returned \/ l >= k THEN acc
    ELSE ForPutBuy(Combination(acc, c, c.liquid_calls[i], c.liquid_calls[j],
                               c.liquid_puts[k], c.liquid_puts[l]),
                   c, i, j, k, l + 1)

\* for k, put_sell in enumerate(liquid_puts)
RECURSIVE ForPutSell(_, _, _, _, _)
ForPutSell(acc, c, i, j, k) ==
    IF acc.returned \/ k > Len(c.liquid_puts) THEN acc
    ELSE ForPutSell(ForPutBuy(acc, c, i, j, k, 1), c, i, j, k + 1)

\* a loop whose bought call starts at the sold call
FirstCallBuySame(i) == i

\* the first index of enumerate(liquid_calls[i+1:], i+1), counting from 1
FirstCallBuy(i) == i + 1

\* for j, call_buy in enumerate(liquid_calls[i+1:], i+1)
RECURSIVE ForCallBuy(_, _, _, _)
ForCallBuy(acc, c, i, j) ==
    IF acc.returned \/ j > Len(c.liquid_calls) THEN acc
    ELSE ForCallBuy(ForPutSell(acc, c, i, j, 1), c, i, j + 1)

\* for i, call_sell in enumerate(liquid_calls)
RECURSIVE ForCallSell(_, _, _)
ForCallSell(acc, c, i) ==
    IF acc.returned \/ i > Len(c.liquid_calls) THEN acc
    ELSE ForCallSell(ForCallBuy(acc, c, i, FirstCallBuy(i)), c, i + 1)

\* What the loops read: the two truncated lists, the arguments, days_to_exp
\* and the limit on the number of condors.
Locals(spot_price, options_chain, expiration, today, h) ==
    [liquid_calls |-> FirstOptions(LiquidSorted(options_chain.calls)),
     liquid_puts |-> FirstOptions(LiquidSorted(options_chain.puts)),
     expiration |-> expiration,
     days_to_exp |-> expiration - today,
     spot_price |-> spot_price,
     half |-> h,
     limit |-> max_iron_condors]

\* a build that goes on from the list of the call before
StartKept ==
    [out |-> iron_condors, returned |-> FALSE, combinations_checked |-> 0]

\* iron_condors = [] and combinations_checked = 0
Start == [out |-> <<>>, returned |-> FALSE, combinations_checked |-> 0]

\* The function up to its return: iron_condors (out) and combinations_checked
\* as they are then. today is the date datetime.now(ET) gives during the
\* call, h the sides the floats it rounds lie on.
Enumeration(spot_price, options_chain, expiration, today, h) ==
    LET liquid_calls == LiquidSorted(options_chain.calls)
        liquid_puts == LiquidSorted(options_chain.puts)
        c == Locals(spot_price, options_chain, expiration, today, h)
    IN  IF options_chain.calls = <<>> \/ options_chain.puts = <<>> THEN Start
        ELSE IF Len(liquid_calls) < 2 \/ Len(liquid_puts) < 2 THEN Start
        ELSE IF c.days_to_exp <= 0 THEN Start
        ELSE ForCallSell(Start, c, 1)

\* the list the function returns
construct_iron_condors(spot_price, options_chain, expiration, today, h) ==
    Enumeration(spot_price, options_chain, expiration, today, h).out

----------------------------------------------------------------------------
(* find_best_iron_condors and display_results *)

\* the sort key of display_results for each --criteria
Key(ic, by) ==
    CASE by = "credit" -> ic.net_credit
      [] by = "probability" -> ic.probability_of_profit
      [] by = "risk_reward" -> ic.risk_reward_ratio

\* a sort without reverse=True
RECURSIVE InsertAscending(_, _, _)
InsertAscending(sorted, ic, by) ==
    IF sorted = <<>> THEN <<ic>>
    ELSE IF Key(sorted[Len(sorted)], by) <= Key(ic, by) THEN Append(sorted, ic)
    ELSE Append(InsertAscending(SubSeq(sorted, 1, Len(sorted) - 1), ic, by),
                sorted[Len(sorted)])

\* list.sort(key=..., reverse=True) and sorted(..., reverse=True): descending
\* and stable, a condor goes behind every condor whose key is not smaller
RECURSIVE InsertDescending(_, _, _)
InsertDescending(sorted, ic, by) ==
    IF sorted = <<>> THEN <<ic>>
    ELSE IF Key(sorted[Len(sorted)], by) >= Key(ic, by) THEN Append(sorted, ic)
    ELSE Append(InsertDescending(SubSeq(sorted, 1, Len(sorted) - 1), ic, by),
                sorted[Len(sorted)])

RECURSIVE SortedDescending(_, _)
SortedDescending(xs, by) ==
    IF xs = <<>> THEN <<>>
    ELSE InsertDescending(SortedDescending(SubSeq(xs, 1, Len(xs) - 1), by),
                          xs[Len(xs)], by)

\* xs[:n]
Slice(xs, n) ==
    IF n >= 0 THEN SubSeq(xs, 1, Min(n, Len(xs)))
    ELSE SubSeq(xs, 1, Len(xs) + n)

\* a filter without the max_risk test
PassesFiltersNoRisk(ic, a) ==
    /\ ic.net_credit >= a.min_net_credit
    /\ ic.probability_of_profit >= a.min_probability

\* the condition of the filter comprehension
PassesFilters(ic, a) ==
    /\ ic.net_credit >= a.min_net_credit
    /\ ic.max_loss <= a.max_risk
    /\ ic.probability_of_profit >= a.min_probability

\* the loop over the expirations: chain[e] is what get_options_chain gives
RECURSIVE ProcessExpirations(_, _, _, _, _)
ProcessExpirations(expirations, chain, spot_price, today, h) ==
    IF expirations = <<>> THEN <<>>
    ELSE LET n == Len(expirations)
             expiration == expirations[n]
             options_chain == chain[expiration]
             before == ProcessExpirations(SubSeq(expirations, 1, n - 1), chain,
                                          spot_price, today, h)
         IN  IF options_chain.calls = <<>> \/ options_chain.puts = <<>>
             THEN before
             ELSE before \o construct_iron_condors(spot_price, options_chain,
                                                   expiration, today, h)

\* sorted(all_expirations): the dates of the set S in ascending order
RECURSIVE SortedDates(_)
SortedDates(S) ==
    IF S = {} THEN <<>>
    ELSE LET last == CHOOSE d \in S : \A e \in S : e <= d
         IN  Append(SortedDates(S \ {last}), last)

\* get_available_expirations: dates are the expiration dates of the
\* snapshots in the order the provider yields them, today is the date the
\* clock gives
get_available_expirations(dates, today, max_days) ==
    LET all_expirations == { dates[n] : n \in 1..Len(dates) }
        end_date == today + max_days
    IN  SelectSeq(SortedDates(all_expirations),
                  LAMBDA exp_date : today <= exp_date /\ exp_date <= end_date)

\* filtered_condors.sort(...); filtered_condors = filtered_condors[:limit]
RankAndLimit(filtered, limit) ==
    IF filtered # <<>>
    THEN Slice(SortedDescending(filtered, "credit"), limit)
    ELSE filtered

\* sorted_condors of display_results
display_results(condors, by) ==
    IF by \in {"credit", "probability", "risk_reward"}
    THEN SortedDescending(condors, by)
    ELSE condors

----------------------------------------------------------------------------
(* What the screener is run on *)

Expiration == DaysOut
LaterExpiration == Expiration + 7
\* what get_options_chain gives for the later expiration
LaterChain ==
    [calls |-> << Leg(100, 100, 110, 50, 100), Leg(101, 1, 1, 50, 100) >>,
     puts |-> << Leg(85, 20, 30, 50, 100), Leg(90, 40, 50, 50, 100) >>]
Todays == {0, 1, DaysOut}
Spots == {0, Dollars(97)}
\* the side of a half-way case the floats of a run lie on: net_credit (and
\* max_profit, the same float), max_loss = total_width - net_credit, and
\* max_profit / max_loss
Halves ==
    { [credit |-> a, loss |-> b, ratio |-> a] : a, b \in {"down", "up"} }
Criteria == {"credit", "probability", "risk_reward"}

\* min_net_credit, max_risk, min_probability: the defaults of the command
\* line, and each of the three made strict in turn
Thresholds ==
    { <<Cents(10), Dollars(10), 300>>, <<Dollars(1), Dollars(10), 300>>,
      <<Cents(10), Dollars(5), 300>>, <<Cents(10), Dollars(10), 600>> }

\* arguments argparse lets through (type=float, type=int) with a limit or a
\* threshold that is not positive
NonPositiveArgs ==
    { [min_net_credit |-> Cents(10), max_risk |-> Dollars(10),
       min_probability |-> 300, limit |-> 0],
      [min_net_credit |-> Cents(10), max_risk |-> Dollars(10),
       min_probability |-> 300, limit |-> -1],
      [min_net_credit |-> 0, max_risk |-> Dollars(10),
       min_probability |-> 300, limit |-> MaxLimit],
      [min_net_credit |-> Cents(10), max_risk |-> 0,
       min_probability |-> 300, limit |-> MaxLimit],
      [min_net_credit |-> Cents(10), max_risk |-> Dollars(10),
       min_probability |-> 0, limit |-> MaxLimit] }

Args ==
    { [min_net_credit |-> t[1], max_risk |-> t[2], min_probability |-> t[3],
       limit |-> n] : t \in Thresholds, n \in 1..MaxLimit }
    \cup NonPositiveArgs

\* what the provider and the clock give during one find_best_iron_condors
\* call: the usual case and each way of leaving it
Env(spot_price, has_earnings, expirations, today) ==
    [spot_price |-> spot_price, has_earnings |-> has_earnings,
     expirations |-> expirations, today |-> today]

Envs ==
    { Env(Dollars(97), FALSE, <<Expiration>>, 0),
      Env(Dollars(97), TRUE, <<Expiration>>, 0),
      Env(Dollars(97), FALSE, <<Expiration>>, DaysOut),
      Env(0, FALSE, <<Expiration>>, 0),
      Env(Dollars(97), FALSE, <<>>, 0),
      Env(Dollars(97), FALSE,
          get_available_expirations(<<LaterExpiration, Expiration, LaterExpiration>>,
                                    0, LaterExpiration), 0) }

\* The calls that are tried: every argument list when the provider and the
\* clock give the usual answers, one argument list otherwise.
UsualEnv == Env(Dollars(97), FALSE, <<Expiration>>, 0)
UsualArgs ==
    [min_net_credit |-> Cents(10), max_risk |-> Dollars(10),
     min_probability |-> 300, limit |-> MaxLimit]
ArgsFor(env) == IF env = UsualEnv THEN Args ELSE {UsualArgs}

NoEnv == Env(0, FALSE, <<>>, 0)
NoArgs == [min_net_credit |-> 0, max_risk |-> 0, min_probability |-> 0, limit |-> 0]
NoReturn == [shape |-> "none", condors |-> <<>>, has_earnings |-> FALSE]
NoPricing ==
    [spot |-> 0, strike |-> 0, days_to_exp |-> 0,
     result |-> [raised |-> FALSE, value |-> -1]]

Init ==
    /\ calls \in Chains(CallLegs, MaxCalls)
    /\ puts \in Chains(PutLegs, MaxPuts)
    /\ half \in Halves
    /\ pc = "start"
    /\ iron_condors = <<>>
    /\ args = NoArgs
    /\ all_iron_condors = <<>>
    /\ filtered_condors = <<>>
    /\ ret = NoReturn
    /\ criteria = "none"
    /\ sorted_condors = <<>>
    /\ ambient = NoEnv
    /\ raw = <<>>
    /\ pricing = NoPricing

\* a call of construct_iron_condors on the chain
ConstructIronCondorsCall ==
    /\ \E spot_price \in Spots, today \in Todays :
          /\ iron_condors' = construct_iron_condors(
                spot_price, [calls |-> calls, puts |-> puts], Expiration, today, half)
          /\ ambient' = Env(spot_price, FALSE, <<Expiration>>, today)
    /\ pc' = "built"
    /\ UNCHANGED <<calls, puts, half, args, all_iron_condors, filtered_condors,
                   ret, criteria, sorted_condors, raw, pricing>>

\* the first call on the screener
ConstructIronCondors ==
    /\ pc = "start"
    /\ ConstructIronCondorsCall

\* a call of find_best_iron_condors: the price, the earnings flag, the
\* expirations and the date are what the provider and the clock give
FindBestIronCondorsCall ==
    /\ \E env \in Envs :
          LET chain == [e \in {Expiration, LaterExpiration} |->
                           IF e = Expiration
                           THEN [calls |-> calls, puts |-> puts]
                           ELSE LaterChain]
              all == ProcessExpirations(env.expirations, chain, env.spot_price,
                                        env.today, half)
          IN  \E a \in ArgsFor(env) :
                LET filtered == SelectSeq(all, LAMBDA ic : PassesFilters(ic, a))
                IN  /\ args' = a
                    /\ ambient' = env
                    /\ IF env.spot_price = 0 \/ env.expirations = <<>>
                       THEN /\ ret' = [shape |-> "list", condors |-> <<>>,
                                       has_earnings |-> FALSE]
                            /\ UNCHANGED <<all_iron_condors, filtered_condors>>
                       ELSE /\ all_iron_condors' = all
                            /\ filtered_condors' = filtered
                            /\ ret' = [shape |-> "pair",
                                       condors |-> RankAndLimit(filtered, a.limit),
                                       has_earnings |-> env.has_earnings]
    /\ pc' = "found"
    /\ UNCHANGED <<calls, puts, half, iron_condors, criteria, sorted_condors, raw,
                   pricing>>

\* the first call on the screener
FindBestIronCondors ==
    /\ pc = "start"
    /\ FindBestIronCondorsCall

\* main: screener.display_results(iron_condors, args.criteria)
DisplayResults ==
    /\ pc = "found"
    /\ ret.shape = "pair"
    /\ ret.condors # <<>>
    /\ \E by \in Criteria :
          /\ criteria' = by
          /\ sorted_condors' = display_results(ret.condors, by)
    /\ pc' = "displayed"
    /\ UNCHANGED <<calls, puts, half, iron_condors, args, all_iron_condors,
                   filtered_condors, ret, ambient, raw, pricing>>

\* main: `iron_condors, has_earnings = ...` of a value that is no pair raises
\* ValueError, which main catches and prints as an error
MainUnpackFails ==
    /\ pc = "found"
    /\ ret.shape = "list"
    /\ pc' = "failed"
    /\ UNCHANGED <<calls, puts, half, iron_condors, args, all_iron_condors,
                   filtered_condors, ret, criteria, sorted_condors, ambient, raw,
                   pricing>>

Next ==
    \/ ConstructIronCondors
    \/ FindBestIronCondors
    \/ DisplayResults
    \/ MainUnpackFails

Spec == Init /\ [][Next]_vars

----------------------------------------------------------------------------
(* Long chains, for the two caps of construct_iron_condors: n calls above  *)
(* every put, strikes a dollar apart, every leg liquid.                    *)

\* calls whose price falls a cent per strike: every call spread has a credit
FallingCalls(n) == [i \in 1..n |-> Leg(100 + i, n - i, n - i, 50, 100)]

\* calls of one price: no call spread has a credit
FlatCalls(n) == [i \in 1..n |-> Leg(100 + i, 10, 10, 50, 100)]

\* puts of one price below the strike of position first, and a cent more per
\* strike from there on: a put spread has a credit if it sells one of those
RisingPuts(m, first) ==
    [k \in 1..m |-> IF k < first THEN Leg(k, 10, 10, 50, 100)
                    ELSE Leg(k, 11 + k - first, 11 + k - first, 50, 100)]

Sizes == {2, 3, 10} \cup ((max_options - 1)..MaxChain)

LongChains ==
    { [calls |-> FallingCalls(n), puts |-> RisingPuts(m, 1)] : n, m \in Sizes }
    \cup
    { [calls |-> FlatCalls(n), puts |-> RisingPuts(m, max_options)] :
        n \in {2} \cup ((max_options + 1)..MaxChain), m \in max_options..MaxChain }

\* Short chains out of strike order, with a leg below min_volume and a leg
\* below min_open_interest.
ThinCalls ==
    << Leg(104, 0, 0, 50, 100), Leg(102, 2, 2, 4, 100),
       Leg(101, 3, 3, 50, 100), Leg(103, 1, 1, 50, 24) >>

ThinPuts ==
    << Leg(3, 13, 13, 50, 100), Leg(2, 12, 12, 50, 24),
       Leg(1, 11, 11, 50, 100), Leg(4, 14, 14, 4, 100) >>

ThinChains ==
    { [calls |-> ThinCalls, puts |-> ThinPuts],
      [calls |-> ThinCalls, puts |-> RisingPuts(2, 1)],
      [calls |-> FallingCalls(2), puts |-> ThinPuts] }

InitCaps ==
    /\ \E chain \in LongChains \cup ThinChains :
          calls = chain.calls /\ puts = chain.puts
    /\ half = [credit |-> "down", loss |-> "down", ratio |-> "down"]
    /\ pc = "start"
    /\ iron_condors = <<>>
    /\ args = NoArgs
    /\ all_iron_condors = <<>>
    /\ filtered_condors = <<>>
    /\ ret = NoReturn
    /\ criteria = "none"
    /\ sorted_condors = <<>>
    /\ ambient = NoEnv
    /\ raw = <<>>
    /\ pricing = NoPricing

SpecCaps == InitCaps /\ [][ConstructIronCondors]_vars

----------------------------------------------------------------------------
(* One screener called again and again on the lists of its caller. *)

AgainChains ==
    { [calls |-> ThinCalls, puts |-> ThinPuts],
      [calls |-> << Leg(100, 100, 110, 50, 100), Leg(105, 50, 60, 50, 100) >>,
       puts |-> << Leg(90, 40, 50, 50, 100), Leg(85, 20, 30, 50, 100) >>],
      [calls |-> << Leg(100, 580, 581, 50, 100), Leg(100, 100, 110, 50, 100),
                    Leg(101, 1, 1, 50, 100) >>,
       puts |-> << Leg(85, 20, 30, 50, 100), Leg(90, 40, 50, 50, 100) >>] }

InitAgain ==
    /\ \E chain \in AgainChains : calls = chain.calls /\ puts = chain.puts
    /\ half = [credit |-> "down", loss |-> "down", ratio |-> "down"]
    /\ pc = "start"
    /\ iron_condors = <<>>
    /\ args = NoArgs
    /\ all_iron_condors = <<>>
    /\ filtered_condors = <<>>
    /\ ret = NoReturn
    /\ criteria = "none"
    /\ sorted_condors = <<>>
    /\ ambient = NoEnv
    /\ raw = <<>>
    /\ pricing = NoPricing

\* a call of construct_iron_condors after other calls have returned
ConstructIronCondorsAgain ==
    /\ pc # "start"
    /\ ConstructIronCondorsCall

\* a call of find_best_iron_condors after other calls have returned
FindBestIronCondorsAgain ==
    /\ pc # "start"
    /\ FindBestIronCondorsCall

NextAgain ==
    \/ ConstructIronCondors
    \/ FindBestIronCondors
    \/ DisplayResults
    \/ MainUnpackFails
    \/ ConstructIronCondorsAgain
    \/ FindBestIronCondorsAgain

SpecAgain == InitAgain /\ [][NextAgain]_vars

----------------------------------------------------------------------------
(* get_options_chain *)

\* One snapshot of list_snapshot_options_chain. expiration_date 0 stands for
\* a snapshot without one. strike_state tells what details.strike_price is:
\* "value" a number, "absent" no such attribute (hasattr fails), "none" an
\* attribute holding None, on which float() raises TypeError. A quote, volume
\* or open interest that is missing, None or 0 is the number 0: the code
\* turns each of them into 0.
Snapshot(expiration_date, contract_type, strike_state, k, b, a, v, oi) ==
    [expiration_date |-> expiration_date, contract_type |-> contract_type,
     strike_state |-> strike_state, strike_price |-> Dollars(k),
     bid |-> Cents(b), ask |-> Cents(a), volume |-> v, open_interest |-> oi]

\* option_data of a snapshot on which no conversion raises
OptionData(option) ==
    [strike |-> IF option.strike_state = "value" THEN option.strike_price ELSE 0,
     bid |-> option.bid, ask |-> option.ask,
     volume |-> option.volume, open_interest |-> option.open_interest]

\* the loop over the snapshots from the n-th on; acc holds calls, puts and
\* count, and whether an exception left the loop
RECURSIVE ForOption(_, _, _, _)
ForOption(acc, options, n, expiration) ==
    IF acc.raised \/ n > Len(options) \/ acc.count >= max_count THEN acc
    ELSE LET option == options[n]
             counted == [acc EXCEPT !.count = @ + 1]
         IN  IF option.expiration_date # expiration
             THEN ForOption(counted, options, n + 1, expiration)
             ELSE IF option.strike_state = "none"
             THEN [acc EXCEPT !.raised = TRUE]
             ELSE IF option.contract_type = "call"
             THEN ForOption([counted EXCEPT !.calls = Append(@, OptionData(option))],
                            options, n + 1, expiration)
             ELSE IF option.contract_type = "put"
             THEN ForOption([counted EXCEPT !.puts = Append(@, OptionData(option))],
                            options, n + 1, expiration)
             ELSE ForOption(counted, options, n + 1, expiration)

\* the whole function: the try block, and the except branch that answers
\* any exception with two empty lists
get_options_chain(options, expiration) ==
    LET done == ForOption([calls |-> <<>>, puts |-> <<>>, count |-> 0,
                           raised |-> FALSE], options, 1, expiration)
    IN  IF done.raised THEN [calls |-> <<>>, puts |-> <<>>]
        ELSE [calls |-> done.calls, puts |-> done.puts]

\* what the provider may yield: a call and a put of the expiration, a call
\* of a later expiration, a snapshot of another contract type, one whose
\* strike_price is None and one without a strike_price
Snapshots ==
    { Snapshot(Expiration, "call", "value", 100, 100, 110, 50, 100),
      Snapshot(Expiration, "put", "value", 90, 40, 50, 50, 100),
      Snapshot(Expiration + 7, "call", "value", 105, 50, 60, 50, 100),
      Snapshot(Expiration, "other", "value", 95, 60, 70, 50, 100),
      Snapshot(Expiration, "call", "none", 0, 1, 1, 50, 100),
      Snapshot(Expiration, "put", "absent", 0, 20, 30, 50, 100) }

InitChain ==
    /\ raw \in Chains(Snapshots, MaxRaw)
    /\ calls = <<>>
    /\ puts = <<>>
    /\ half = [credit |-> "down", loss |-> "down", ratio |-> "down"]
    /\ pc = "start"
    /\ iron_condors = <<>>
    /\ args = NoArgs
    /\ all_iron_condors = <<>>
    /\ filtered_condors = <<>>
    /\ ret = NoReturn
    /\ criteria = "none"
    /\ sorted_condors = <<>>
    /\ ambient = NoEnv
    /\ pricing = NoPricing

\* a call of get_options_chain for the expiration
GetOptionsChain ==
    /\ pc = "start"
    /\ LET options_chain == get_options_chain(raw, Expiration)
       IN  /\ calls' = options_chain.calls
           /\ puts' = options_chain.puts
    /\ pc' = "chained"
    /\ UNCHANGED <<half, iron_condors, args, all_iron_condors, filtered_condors,
                   ret, criteria, sorted_condors, ambient, raw, pricing>>

SpecChain == InitChain /\ [][GetOptionsChain]_vars

----------------------------------------------------------------------------
(* calculate_black_scholes_probability. A returned probability is counted  *)
(* in ten thousandths (1.0 is 10000). volatility keeps its default 0.2.    *)

\* a degenerate branch that asks for spot < strike
ExpiredValueStrict(spot, strike) == IF spot < strike THEN 10000 ELSE 0

\* 1.0 if spot <= strike else 0.0
ExpiredValue(spot, strike) == IF spot <= strike THEN 10000 ELSE 0

Returned(value) == [raised |-> FALSE, value |-> value]
Raised == [raised |-> TRUE, value |-> -1]

\* norm_cdf(d2) is a float of [0.0, 1.0] (erf reaches -1.0 and 1.0 in floating
\* point); the model does not evaluate log, sqrt and erf and lets the value
\* be any of these quarters
Probabilities == {0, 2500, 5000, 7500, 10000}

\* What a call may return. With days_to_exp >= 1, time_to_exp =
\* days_to_exp / 365.0 is positive, so the second test never holds;
\* spot / strike raises ZeroDivisionError for strike 0 and math.log raises
\* ValueError for a ratio that is not positive. For spot <= strike,
\* log(spot / strike) <= 0, so d1 < volatility * sqrt(time_to_exp), d2 < 0
\* and norm_cdf(d2) is below one half.
calculate_black_scholes_probability(spot, strike, days_to_exp) ==
    IF days_to_exp <= 0 THEN {Returned(ExpiredValue(spot, strike))}
    ELSE IF strike = 0 THEN {Raised}
    ELSE IF spot <= 0 THEN {Raised}
    ELSE IF spot <= strike
    THEN {Returned(p) : p \in {q \in Probabilities : q < 5000}}
    ELSE {Returned(p) : p \in Probabilities}

PricingSpots == {0, Dollars(90), Dollars(97), Dollars(100), Dollars(105)}
PricingStrikes == {0, Dollars(90), Dollars(100), Dollars(105)}

InitPricing ==
    /\ \E spot \in PricingSpots, strike \in PricingStrikes,
          days_to_exp \in (-1)..MaxDays :
          pricing = [spot |-> spot, strike |-> strike,
                     days_to_exp |-> days_to_exp,
                     result |-> NoPricing.result]
    /\ calls = <<>>
    /\ puts = <<>>
    /\ half = [credit |-> "down", loss |-> "down", ratio |-> "down"]
    /\ pc = "start"
    /\ iron_condors = <<>>
    /\ args = NoArgs
    /\ all_iron_condors = <<>>
    /\ filtered_condors = <<>>
    /\ ret = NoReturn
    /\ criteria = "none"
    /\ sorted_condors = <<>>
    /\ ambient = NoEnv
    /\ raw = <<>>

\* a call of calculate_black_scholes_probability
CalculateBlackScholesProbability ==
    /\ pc = "start"
    /\ \E result \in calculate_black_scholes_probability(
                        pricing.spot, pricing.strike, pricing.days_to_exp) :
          pricing' = [pricing EXCEPT !.result = result]
    /\ pc' = "priced"
    /\ UNCHANGED <<calls, puts, half, iron_condors, args, all_iron_condors,
                   filtered_condors, ret, criteria, sorted_condors, ambient, raw>>

SpecPricing == InitPricing /\ [][CalculateBlackScholesProbability]_vars

----------------------------------------------------------------------------
(* Properties *)

Elems(xs) == { xs[n] : n \in 1..Len(xs) }

\* every condor a call of construct_iron_condors has returned: by a direct
\* call, or to find_best_iron_condors
Constructed == Elems(iron_condors) \cup Elems(all_iron_condors)

CallWidth(ic) == ic.call_spread[2] - ic.call_spread[1]
PutWidth(ic) == ic.put_spread[1] - ic.put_spread[2]

\* C1: every condor construct_iron_condors returns has call buy strike >
\* call sell strike, put sell strike > put buy strike and put sell strike <
\* call sell strike, also when two legs of a side share a strike.
C1_StrikesOrdered ==
    \A ic \in Constructed :
        /\ ic.call_spread[2] > ic.call_spread[1]
        /\ ic.put_spread[1] > ic.put_spread[2]
        /\ ic.put_spread[1] < ic.call_spread[1]

\* C2: the net_credit stored in every returned condor (rounded to 2
\* decimals) is strictly positive.
C2_StoredNetCreditPositive ==
    \A ic \in Constructed : ic.net_credit > 0

\* C3: the max_loss stored in every returned condor (rounded to 2 decimals)
\* is strictly positive.
C3_StoredMaxLossPositive ==
    \A ic \in Constructed : ic.max_loss > 0

\* C4: stored max_profit + stored max_loss is exactly the call spread width
\* plus the put spread width, for every returned condor.
C4_CreditWidthIdentity ==
    \A ic \in Constructed :
        ic.max_profit + ic.max_loss = CallWidth(ic) + PutWidth(ic)

\* C5 as stated: probability_of_profit of every returned condor lies in
\* [0, 1] (0 to 10 tenths).
C5_ProbabilityInUnitInterval ==
    \A ic \in Constructed :
        0 <= ic.probability_of_profit /\ ic.probability_of_profit <= 10

\* C5 as amended: probability_of_profit of every returned condor is a
\* percentage, in [0, 100] (0 to 1000 tenths).
C5_ProbabilityIsPercentage ==
    \A ic \in Constructed :
        0 <= ic.probability_of_profit /\ ic.probability_of_profit <= 1000

\* a build has returned condors
C5_Witness ==
    pc = "built" /\ iron_condors # <<>>

\* C6: one call of construct_iron_condors never returns more than 1000
\* condors.
C6_AtMostLimit ==
    Len(iron_condors) <= max_iron_condors

\* the combinations the four loops would accept without a cap, for chains
\* that are liquid and in strike order
Accepted(cs, ps) ==
    { t \in (1..Len(cs)) \X (1..Len(cs)) \X (1..Len(ps)) \X (1..Len(ps)) :
        /\ t[1] < t[2]
        /\ t[4] < t[3]
        /\ ps[t[3]].strike < cs[t[1]].strike
        /\ Mid(cs[t[1]]) - Mid(cs[t[2]]) + Mid(ps[t[3]]) - Mid(ps[t[4]]) > 0
        /\ (cs[t[2]].strike - cs[t[1]].strike) + (ps[t[3]].strike - ps[t[4]].strike)
             - (Mid(cs[t[1]]) - Mid(cs[t[2]]) + Mid(ps[t[3]]) - Mid(ps[t[4]])) > 0 }

\* a build stopped at 1000 condors although more combinations are valid
C6_Witness ==
    /\ pc = "built"
    /\ Len(iron_condors) = max_iron_condors
    /\ Len(calls) <= 10
    /\ Len(puts) <= 10
    /\ Cardinality(Accepted(calls, puts)) > max_iron_condors

Liquid(options) == { o \in Elems(options) : IsLiquid(o) }

\* fewer than max_options liquid legs of the side have a lower strike
AmongLowest(strike, options) ==
    /\ \E o \in Liquid(options) : o.strike = strike
    /\ Cardinality({ o \in Liquid(options) : o.strike < strike }) < max_options

\* C7: every leg of a returned condor is one of the 50 lowest-strike liquid
\* legs of its side.
C7_OnlyLowestStrikes ==
    \A ic \in Elems(iron_condors) :
        /\ AmongLowest(ic.call_spread[1], calls)
        /\ AmongLowest(ic.call_spread[2], calls)
        /\ AmongLowest(ic.put_spread[1], puts)
        /\ AmongLowest(ic.put_spread[2], puts)

\* more than 50 legs per side are liquid and a returned condor sells the
\* put with the 50th lowest strike
C7_Witness ==
    /\ pc = "built"
    /\ Cardinality(Liquid(calls)) > max_options
    /\ Cardinality(Liquid(puts)) > max_options
    /\ \E ic \in Elems(iron_condors) :
          Cardinality({ o \in Liquid(puts) : o.strike < ic.put_spread[1] })
              = max_options - 1

\* find_best_iron_condors has gone through its filter step
Filtered == pc \in {"found", "displayed"} /\ ret.shape = "pair"

\* C8 as stated: the filter step keeps exactly the built condors with
\* net_credit >= minNetCredit, max_loss <= maxRisk and
\* probability_of_profit * 100 >= minProbabilityPct.
C8_FilterTimesHundred ==
    Filtered =>
        \A ic \in Elems(all_iron_condors) :
            ic \in Elems(filtered_condors) <=>
                /\ ic.net_credit >= args.min_net_credit
                /\ ic.max_loss <= args.max_risk
                /\ ic.probability_of_profit * 100 >= args.min_probability

\* C8 as amended: the filter step keeps exactly the built condors with
\* net_credit >= minNetCredit, max_loss <= maxRisk and probability_of_profit
\* (a percentage) >= minProbabilityPct, and nothing else.
C8_FilterKeepsExactly ==
    Filtered =>
        /\ Elems(filtered_condors) \subseteq Elems(all_iron_condors)
        /\ \A ic \in Elems(all_iron_condors) :
              ic \in Elems(filtered_condors) <=>
                  /\ ic.net_credit >= args.min_net_credit
                  /\ ic.max_loss <= args.max_risk
                  /\ ic.probability_of_profit >= args.min_probability

\* the filter step kept a condor and dropped another for its max_loss
C8_Witness ==
    /\ Filtered
    /\ filtered_condors # <<>>
    /\ \E ic \in Elems(all_iron_condors) :
          /\ ic \notin Elems(filtered_condors)
          /\ ic.max_loss > args.max_risk
          /\ ic.net_credit >= args.min_net_credit

NonIncreasing(xs, by) ==
    \A n \in 1..(Len(xs) - 1) :
        CASE by = "credit" -> xs[n].net_credit >= xs[n + 1].net_credit
          [] by = "probability" ->
                xs[n].probability_of_profit >= xs[n + 1].probability_of_profit
          [] by = "risk_reward" ->
                xs[n].risk_reward_ratio >= xs[n + 1].risk_reward_ratio

\* C9: the list display_results ranks by credit, probability or risk_reward
\* is non-increasing in that key, and so is the list find_best_iron_condors
\* ranks by net credit.
C9_RankedNonIncreasing ==
    /\ pc = "displayed" => NonIncreasing(sorted_condors, criteria)
    /\ Filtered => NonIncreasing(ret.condors, "credit")

\* display_results has put two condors with different risk/reward in another
\* order than it was given them
C9_Witness ==
    /\ pc = "displayed"
    /\ criteria = "risk_reward"
    /\ sorted_condors # ret.condors
    /\ \E n \in 1..(Len(sorted_condors) - 1) :
          sorted_condors[n].risk_reward_ratio > sorted_condors[n + 1].risk_reward_ratio

\* the first position of a condor in a list
Position(ic, xs) == CHOOSE n \in 1..Len(xs) : xs[n] = ic /\ \A m \in 1..(n - 1) : xs[m] # ic

\* C10: two condors with equal rank key appear in the ranked output in the
\* order in which the build produced them, under each of the three keys.
C10_TiesInBuildOrder ==
    pc = "displayed" =>
        \A a, b \in 1..Len(sorted_condors) :
            (a < b /\ Key(sorted_condors[a], criteria) = Key(sorted_condors[b], criteria))
                => Position(sorted_condors[a], all_iron_condors)
                       <= Position(sorted_condors[b], all_iron_condors)

\* C11: the list find_best_iron_condors returns is never longer than the
\* limit it was called with, whatever integer that limit is (stated for the
\* calls that return a record).
C11_AtMostResultLimit ==
    (Filtered /\ ret.condors # <<>>) => Len(ret.condors) <= args.limit

\* the chain of the one expiration, as find_best_iron_condors gets it
TheChain ==
    [e \in {Expiration, LaterExpiration} |->
        IF e = Expiration THEN [calls |-> calls, puts |-> puts] ELSE LaterChain]

\* what the find_best_iron_condors call of this state returns from the same
\* chain, arguments, price and expirations when the clock reads today
FoundOn(today) ==
    RankAndLimit(
        SelectSeq(ProcessExpirations(ambient.expirations, TheChain,
                                     ambient.spot_price, today, half),
                  LAMBDA ic : PassesFilters(ic, args)),
        args.limit)

\* C12: build, filter and rank give the same records in the same order with
\* the same field values whenever legs, spot, expiration, thresholds and
\* limit are the same; the date the clock reads during the build is no input.
C12_SameInputsSameOutput ==
    /\ Filtered => \A today \in Todays : ret.condors = FoundOn(today)
    /\ pc = "built" =>
          \A today \in Todays :
              iron_condors = construct_iron_condors(
                  ambient.spot_price, [calls |-> calls, puts |-> puts],
                  Expiration, today, half)

\* the end-to-end scenario: two calls, two puts, spot 97, 10 days out
ScenarioBuilt ==
    /\ pc = "built"
    /\ calls = <<Leg(100, 100, 110, 50, 100), Leg(105, 50, 60, 50, 100)>>
    /\ puts = <<Leg(90, 40, 50, 50, 100), Leg(85, 20, 30, 50, 100)>>
    /\ ambient.spot_price = Dollars(97)
    /\ Expiration - ambient.today = 10

Approx(x, y) == x - y <= Cents(1) /\ y - x <= Cents(1)

\* the strikes the scenario expects of a condor
ScenarioStrikes(ic) ==
    /\ ic.call_spread = <<Dollars(100), Dollars(105)>>
    /\ ic.put_spread = <<Dollars(90), Dollars(85)>>
    /\ ic.profit_zone = <<Dollars(90), Dollars(100)>>

\* C13 as stated: the scenario builds exactly one condor, call spread
\* (100, 105), put spread (90, 85), profit zone (90, 100), net credit about
\* 0.30 and max loss about 4.70.
C13_ScenarioCreditThirtyCents ==
    ScenarioBuilt =>
        /\ Len(iron_condors) = 1
        /\ ScenarioStrikes(iron_condors[1])
        /\ Approx(iron_condors[1].net_credit, Cents(30))
        /\ Approx(iron_condors[1].max_loss, Cents(470))

\* C13 as amended: the scenario builds exactly one condor, call spread
\* (100, 105), put spread (90, 85), profit zone (90, 100), net credit 0.70
\* and max loss 9.30.
C13_ScenarioCreditSeventyCents ==
    ScenarioBuilt =>
        /\ Len(iron_condors) = 1
        /\ ScenarioStrikes(iron_condors[1])
        /\ iron_condors[1].net_credit = Cents(70)
        /\ iron_condors[1].max_loss = Cents(930)

\* the scenario has been built and has given a condor
C13_Witness ==
    ScenarioBuilt /\ iron_condors # <<>>

\* the combinations (i, j, k, l) the four loops of a build go through
Enumerated ==
    LET lc == FirstOptions(LiquidSorted(calls))
        lp == FirstOptions(LiquidSorted(puts))
    IN  { <<lc[i], lc[j], lp[k], lp[l]>> :
            <<i, j, k, l>> \in { t \in (1..Len(lc)) \X (1..Len(lc)) \X
                                        (1..Len(lp)) \X (1..Len(lp)) :
                                    t[1] < t[2] /\ t[4] < t[3] } }

\* C14: when the sold put is at or above the sold call in every combination
\* the loops go through, construct_iron_condors returns, and returns no
\* condor.
C14_AllCrossedGivesEmpty ==
    (\A t \in Enumerated : t[3].strike >= t[1].strike) =>
        /\ pc = "built" => iron_condors = <<>>
        /\ \A ic \in Elems(all_iron_condors) : ic.expiration # Expiration

\* a build has gone through combinations, each with the sold put at or
\* above the sold call, and has returned
C14_Witness ==
    /\ pc = "built"
    /\ ambient.today < Expiration
    /\ Enumerated # {}
    /\ \A t \in Enumerated : t[3].strike >= t[1].strike

\* fewer than two legs of the list have the volume and the open interest
\* the build asks for
FewLiquid(options) ==
    Cardinality({ n \in 1..Len(options) :
                    /\ options[n].volume >= min_volume
                    /\ options[n].open_interest >= min_open_interest }) < 2

\* nothing to build from: too few liquid legs on a side, or no combination
\* of the liquid legs that the loops accept
NothingToBuild ==
    \/ FewLiquid(calls)
    \/ FewLiquid(puts)
    \/ Accepted(FirstOptions(LiquidSorted(calls)),
                FirstOptions(LiquidSorted(puts))) = {}

\* find_best_iron_condors got a price and the expiration, and so went on to
\* fetch the chain
ChainFetched ==
    /\ pc \in {"found", "displayed", "failed"}
    /\ ambient.spot_price # 0
    /\ ambient.expirations = <<Expiration>>

\* C15: with fewer than two liquid legs on a side, or no valid combination,
\* construct_iron_condors returns an empty list, and a
\* find_best_iron_condors call that fetched the chain returns the pair of an
\* empty list and the earnings flag, as it does for a non-empty result.
C15_NothingToBuildGivesEmptyPair ==
    NothingToBuild =>
        /\ pc = "built" => iron_condors = <<>>
        /\ ChainFetched =>
              /\ pc = "found"
              /\ ret.shape = "pair"
              /\ ret.condors = <<>>
              /\ ret.has_earnings = ambient.has_earnings

\* find_best_iron_condors has returned for a chain with legs on both sides,
\* one of them short of open interest, and fewer than two liquid puts
C15_Witness ==
    /\ ChainFetched
    /\ calls # <<>>
    /\ ~FewLiquid(calls)
    /\ Len(puts) >= 2
    /\ FewLiquid(puts)
    /\ ambient.today < Expiration

\* C16: when no expiration is available, find_best_iron_condors returns the
\* pair of an empty list and the earnings flag, as on the normal path, and
\* main does not end in its error branch.
C16_NoExpirationsGivesEmptyPair ==
    (/\ pc \in {"found", "displayed", "failed"}
     /\ ambient.spot_price # 0
     /\ ambient.expirations = <<>>) =>
        /\ ret.shape = "pair"
        /\ ret.condors = <<>>
        /\ pc # "failed"

\* the expiration is not in the future when the build reads the clock
NonFuture == Expiration - ambient.today <= 0

\* C17: no call returns an empty result for an expiration that is not in
\* the future: neither construct_iron_condors nor a find_best_iron_condors
\* that got a price and that expiration (stated for chains that hold a
\* valid combination, where the empty result has no other cause).
C17_NonFutureNeverSilentlyEmpty ==
    ~NothingToBuild =>
        /\ ~(pc = "built" /\ NonFuture /\ iron_condors = <<>>)
        /\ ~(ChainFetched /\ NonFuture /\ ret.shape = "pair" /\ ret.condors = <<>>)

\* C18: find_best_iron_condors never goes through its filter and rank steps
\* and returns when its limit, or one of its three thresholds, is not
\* positive.
C18_NonPositiveArgsRejected ==
    ~(/\ Filtered
      /\ \/ args.limit <= 0
         \/ args.min_net_credit <= 0
         \/ args.max_risk <= 0
         \/ args.min_probability <= 0)

\* the snapshot is of the expiration asked for and of the contract type
Matches(option, contract_type) ==
    /\ option.expiration_date = Expiration
    /\ option.contract_type = contract_type

\* C19: get_options_chain leaves out a snapshot on which a conversion fails
\* and nothing else: every other call and put of the expiration, before or
\* after it in the chain, is in the calls or the puts it returns.
C19_OnlyMalformedExcluded ==
    pc = "chained" =>
        \A n \in 1..Len(raw) :
            raw[n].strike_state = "value" =>
                /\ Matches(raw[n], "call") => OptionData(raw[n]) \in Elems(calls)
                /\ Matches(raw[n], "put") => OptionData(raw[n]) \in Elems(puts)

\* the leg comes from a snapshot of the expiration and of the contract type
\* that has a strike, and a positive one
FromSnapshotWithStrike(leg, contract_type) ==
    \E n \in 1..Len(raw) :
        /\ Matches(raw[n], contract_type)
        /\ raw[n].strike_state = "value"
        /\ raw[n].strike_price > 0
        /\ leg = OptionData(raw[n])

\* C20: every leg get_options_chain returns is of the expiration asked for,
\* of the contract type of its list, and has a strike that was present and
\* positive in its snapshot; none carries a defaulted strike.
C20_LegsMatchAndHaveStrike ==
    pc = "chained" =>
        /\ \A leg \in Elems(calls) : FromSnapshotWithStrike(leg, "call")
        /\ \A leg \in Elems(puts) : FromSnapshotWithStrike(leg, "put")

\* C21: called with days_to_exp <= 0, calculate_black_scholes_probability
\* returns exactly 1.0 when spot <= strike and exactly 0.0 otherwise, for
\* every spot and strike; it returns nothing else on this branch.
C21_ExpiredIsOneOrZero ==
    (pc = "priced" /\ pricing.days_to_exp <= 0) =>
        /\ ~pricing.result.raised
        /\ pricing.spot <= pricing.strike => pricing.result.value = 10000
        /\ pricing.spot > pricing.strike => pricing.result.value = 0

\* a call on the expiration day with the spot at the strike returned 1.0
C21_Witness ==
    /\ pc = "priced"
    /\ pricing.days_to_exp = 0
    /\ pricing.spot = pricing.strike
    /\ pricing.spot > 0
    /\ pricing.result.value = 10000

\* The estimates of the price ending inside a profit zone: the value of
\* calculate_black_scholes_probability at the lower boundary less its value
\* at the upper boundary, for every pair of values the two calls may return.
ZoneEstimates(spot, profit_zone, days_to_exp) ==
    { above.value - beyond.value :
        <<above, beyond>> \in
            { t \in calculate_black_scholes_probability(spot, profit_zone[1],
                                                        days_to_exp)
                    \X calculate_black_scholes_probability(spot, profit_zone[2],
                                                           days_to_exp) :
                ~t[1].raised /\ ~t[2].raised /\ t[1].value >= t[2].value } }

\* C22: probability_of_profit of every returned condor is the estimate of
\* calculate_black_scholes_probability for the spot price, the boundaries
\* of the condor's profit zone and its days to expiration (as a percentage
\* rounded to one decimal), and so not one constant for every candidate.
C22_ProbabilityIsZoneEstimate ==
    \A ic \in Constructed :
        ic.spot_price > 0 =>
            \E estimate \in ZoneEstimates(ic.spot_price, ic.profit_zone,
                                          ic.days_to_expiration) :
                \E h \in {"down", "up"} :
                    ic.probability_of_profit = PercentRounded(estimate, h)

\* index tuples <<i, j, k, l>> in lexicographic order
LexLess(t, u) ==
    \/ t[1] < u[1]
    \/ t[1] = u[1] /\ t[2] < u[2]
    \/ t[1] = u[1] /\ t[2] = u[2] /\ t[3] < u[3]
    \/ t[1] = u[1] /\ t[2] = u[2] /\ t[3] = u[3] /\ t[4] < u[4]

\* the place of an index tuple among those of ts
Rank(t, ts) == 1 + Cardinality({ u \in ts : LexLess(u, t) })

\* a build of a chain short enough to rank, which got as far as its loops
RankedBuild ==
    /\ pc = "built"
    /\ Len(calls) * Len(puts) <= MaxRanked
    /\ ambient.today < Expiration

\* the condor was built from the legs at the index tuple
BuiltFrom(ic, t, cs, ps) ==
    /\ ic.call_spread = <<cs[t[1]].strike, cs[t[2]].strike>>
    /\ ic.put_spread = <<ps[t[3]].strike, ps[t[4]].strike>>
    /\ ic.net_credit =
          round2(Mid(cs[t[1]]) - Mid(cs[t[2]]) + Mid(ps[t[3]]) - Mid(ps[t[4]]),
                 half.credit)

\* C23: construct_iron_condors emits the condors in strictly ascending
\* lexicographic order of the index tuple (i, j, k, l) into the sorted,
\* truncated lists (i < j call_sell and call_buy, l < k put_buy and
\* put_sell): the n-th condor is the one of the n-th valid tuple, each valid
\* tuple gives one condor, and only the tuples with i < j and l < k are
\* examined.
C23_EmittedInIndexOrder ==
    RankedBuild =>
        LET cs == FirstOptions(LiquidSorted(calls))
            ps == FirstOptions(LiquidSorted(puts))
            valid == Accepted(cs, ps)
            e == Enumeration(ambient.spot_price, [calls |-> calls, puts |-> puts],
                             Expiration, ambient.today, half)
            pairs(n) == (n * (n - 1)) \div 2
        IN  /\ Len(iron_condors) = Min(Cardinality(valid), max_iron_condors)
            /\ \A t \in valid :
                  Rank(t, valid) <= max_iron_condors =>
                      BuiltFrom(iron_condors[Rank(t, valid)], t, cs, ps)
            /\ (Len(cs) >= 2 /\ Len(ps) >= 2
                    /\ Cardinality(valid) < max_iron_condors) =>
                  e.combinations_checked = pairs(Len(cs)) * pairs(Len(ps))

\* a build of three calls and three puts emitted all nine combinations
C23_Witness ==
    /\ RankedBuild
    /\ Len(calls) = 3
    /\ Len(puts) = 3
    /\ Len(iron_condors) = 9

\* the index tuples the four loops can reach
Examinable(cs, ps) ==
    { t \in (1..Len(cs)) \X (1..Len(cs)) \X (1..Len(ps)) \X (1..Len(ps)) :
        t[1] < t[2] /\ t[4] < t[3] }

\* a build of a chain short enough to list every combination of, which got
\* as far as its loops
ListedBuild ==
    /\ pc = "built"
    /\ Len(calls) <= MaxListed
    /\ Len(puts) <= MaxListed
    /\ ambient.today < Expiration
    /\ Len(LiquidSorted(calls)) >= 2
    /\ Len(LiquidSorted(puts)) >= 2

\* the list the same loops build when the limit is out of reach
Uncapped ==
    LET c == Locals(ambient.spot_price, [calls |-> calls, puts |-> puts],
                    Expiration, ambient.today, half)
        reach == Cardinality(Examinable(c.liquid_calls, c.liquid_puts)) + 1
    IN  ForCallSell(Start, [c EXCEPT !.limit = reach], 1).out

\* C24: the enumeration stops when the 1000th condor is emitted: the list
\* returned is the first min(1000, N) condors of the list the enumeration
\* builds without the limit (N condors), no combination is examined after
\* the one that gave the 1000th condor, and the list is returned as the
\* result of the call.
C24_StopsAtLimit ==
    ListedBuild =>
        LET cs == FirstOptions(LiquidSorted(calls))
            ps == FirstOptions(LiquidSorted(puts))
            e == Enumeration(ambient.spot_price, [calls |-> calls, puts |-> puts],
                             Expiration, ambient.today, half)
            last == iron_condors[max_iron_condors]
            at == { t \in Examinable(cs, ps) : BuiltFrom(last, t, cs, ps) }
        IN  /\ iron_condors =
                  SubSeq(Uncapped, 1, Min(max_iron_condors, Len(Uncapped)))
            /\ Len(Uncapped) >= max_iron_condors =>
                  \E t \in at :
                      e.combinations_checked =
                          Cardinality({ u \in Examinable(cs, ps) : ~LexLess(t, u) })

\* a build stopped at its 1000th condor with more than 1000 to emit
C24_Witness ==
    /\ ListedBuild
    /\ Len(iron_condors) = max_iron_condors
    /\ Len(Uncapped) > max_iron_condors

\* the legs of a list that meet both thresholds
MeetBoth(options) ==
    { o \in Elems(options) :
        o.volume >= min_volume /\ o.open_interest >= min_open_interest }

\* the list holds exactly the legs of S, each once, strikes non-decreasing
ExactlyInStrikeOrder(liquid, S) ==
    /\ Elems(liquid) = S
    /\ Len(liquid) = Cardinality(S)
    /\ \A n \in 1..(Len(liquid) - 1) : liquid[n].strike <= liquid[n + 1].strike

\* C25: the liquidity filter of construct_iron_condors gives exactly the
\* legs of the input list with volume >= min_volume and open_interest >=
\* min_open_interest, each once and none added, with non-decreasing
\* strikes; no leg failing a threshold is part of a condor.
C25_FilterKeepsLiquidInStrikeOrder ==
    pc = "built" =>
        /\ ExactlyInStrikeOrder(LiquidSorted(calls), MeetBoth(calls))
        /\ ExactlyInStrikeOrder(LiquidSorted(puts), MeetBoth(puts))
        /\ \A ic \in Elems(iron_condors) :
              /\ \E o \in MeetBoth(calls) : o.strike = ic.call_spread[1]
              /\ \E o \in MeetBoth(calls) : o.strike = ic.call_spread[2]
              /\ \E o \in MeetBoth(puts) : o.strike = ic.put_spread[1]
              /\ \E o \in MeetBoth(puts) : o.strike = ic.put_spread[2]

\* a build from lists out of strike order, each with a leg short of volume
\* and a leg short of open interest, returned a condor
C25_Witness ==
    /\ pc = "built"
    /\ iron_condors # <<>>
    /\ \A options \in {calls, puts} :
          /\ \E o \in Elems(options) :
                o.volume < min_volume /\ o.open_interest >= min_open_interest
          /\ \E o \in Elems(options) :
                o.volume >= min_volume /\ o.open_interest < min_open_interest
          /\ \E n \in 1..(Len(options) - 1) :
                options[n].strike > options[n + 1].strike

\* C26: the list is cut to the result limit after it is ranked by the chosen
\* key: for each of credit, probability and risk_reward, no filtered condor
\* left out of the output has a strictly greater value of the chosen key
\* than a condor that is in the output.
C26_CutAfterRankingByChosenKey ==
    pc = "displayed" =>
        \A out \in Elems(filtered_condors) \ Elems(sorted_condors) :
            \A in \in Elems(sorted_condors) :
                Key(out, criteria) <= Key(in, criteria)

\* C27: in every condor construct_iron_condors returns, max_profit equals
\* net_credit and profit_zone is (sell strike of the put spread, sell strike
\* of the call spread).
C27_MaxProfitAndProfitZone ==
    \A ic \in Constructed :
        /\ ic.max_profit = ic.net_credit
        /\ ic.profit_zone = <<ic.put_spread[1], ic.call_spread[1]>>

\* a build returned condors of two different call spreads over one profit
\* zone
C27_Witness ==
    /\ pc = "built"
    /\ \E ic, other \in Elems(iron_condors) :
          /\ ic.call_spread # other.call_spread
          /\ ic.profit_zone = other.profit_zone
          /\ ic.profit_zone[1] < ic.profit_zone[2]

\* C28: in every condor construct_iron_condors returns, the stored
\* risk_reward_ratio is the stored max_profit divided by the stored max_loss
\* (to the two decimals the ratio is stored with).
C28_RatioOfStoredFields ==
    \A ic \in Constructed :
        /\ ic.max_loss > 0
        /\ \E h \in {"down", "up"} :
              ic.risk_reward_ratio = round_ratio(ic.max_profit, ic.max_loss, h)

\* the list is what one call on the lists of the state builds at that date:
\* the condors of the valid index tuples, in their order, up to the limit
FreshBuild(out, today) ==
    LET cs == FirstOptions(LiquidSorted(calls))
        ps == FirstOptions(LiquidSorted(puts))
        valid == Accepted(cs, ps)
    IN  IF today >= Expiration THEN out = <<>>
        ELSE /\ Len(out) = Min(Cardinality(valid), max_iron_condors)
             /\ \A t \in valid :
                   Rank(t, valid) <= max_iron_condors =>
                       BuiltFrom(out[Rank(t, valid)], t, cs, ps)

\* C29: construct_iron_condors and the filter and rank step leave their
\* inputs as they are and keep nothing between calls: whatever calls came
\* before, a call leaves the call and put lists of the caller unchanged in
\* content and order, and what it returns is what a first call on these
\* lists returns.
C29_InputsUnchangedNothingKept ==
    [][ /\ calls' = calls
        /\ puts' = puts
        /\ pc' = "built" => FreshBuild(iron_condors', ambient'.today)
        /\ (pc' = "found" /\ ret'.shape = "pair"
                /\ ambient'.expirations = <<Expiration>>) =>
              /\ FreshBuild(all_iron_condors', ambient'.today)
              /\ filtered_condors' =
                    SelectSeq(all_iron_condors',
                              LAMBDA ic : /\ ic.net_credit >= args'.min_net_credit
                                          /\ ic.max_loss <= args'.max_risk
                                          /\ ic.probability_of_profit
                                                >= args'.min_probability)
              /\ Elems(ret'.condors) \subseteq Elems(filtered_condors')
      ]_vars

\* a build returned condors after a find_best_iron_condors call and an
\* earlier build of another date had returned theirs
C29_Witness ==
    /\ pc = "built"
    /\ iron_condors # <<>>
    /\ all_iron_condors # <<>>
    /\ sorted_condors # <<>>
    /\ \E n \in 1..Len(calls) - 1 : calls[n].strike > calls[n + 1].strike

\* C30: with several expirations each expiration has its own build, the
\* results are concatenated in ascending order of expiration before they
\* are filtered and ranked, and so of two condors with equal rank key the
\* one of the earlier expiration precedes the one of the later expiration.
C30_EarlierExpirationFirst ==
    /\ (pc \in {"found", "displayed"} /\ ret.shape = "pair") =>
          \A p, q \in 1..Len(all_iron_condors) :
              p < q => all_iron_condors[p].expiration <= all_iron_condors[q].expiration
    /\ pc = "displayed" =>
          \A p, q \in 1..Len(sorted_condors) :
              (p < q /\ Key(sorted_condors[p], criteria)
                          = Key(sorted_condors[q], criteria)) =>
                  sorted_condors[p].expiration <= sorted_condors[q].expiration

====
